---------------------------- MODULE Spec2Model ----------------------------
(***************************************************************************)
(* Model of the two PISM command-line utilities                            *)
(*   examples/pddtune/objective.py  (difference statistics)                *)
(*   util/create_timeline.py        (time axis generator)                  *)
(* Each script is a straight-line batch job; pc walks through its          *)
(* statements.  SpecObjective runs the first tool, SpecTimeline the second.*)
(***************************************************************************)
EXTENDS Integers, Sequences, FiniteSets, TLC

VARIABLES
    pc,            \* position of the script; "idle" for the tool not run
    optsOk,        \* getopt accepts the option syntax
    opts,          \* the (opt, optarg) pairs getopt returns, in order
    thkfile,       \* name bound by -H, or Unbound
    args,          \* positional arguments
    readable,      \* names of the files NC(name, 'r') can open
    hasvar,        \* datasets that hold the variable asked of them
    dovars,        \* list of variable names
    open,          \* datasets opened and not closed
    pism_var, ref_var, thk_var,   \* squeezed grids
    Mx, My, i, j,
    sumdiff, sumL2, sum2kL2, countvalid, count2k,
    avdiff, avL2, av2kL2,
    stdout,        \* kinds of text printed so far
    diffs,         \* lines of the output text file
    status,        \* exit status, or Running
    error,         \* name of the exception that ended the run, or "none"
    \* create_timeline.py
    p_opt,         \* --periodicity as typed, a sequence of characters
    start_opt, end_opt,   \* --start_date, --end_date: a date, or Unparseable
    ref_unit,      \* --ref_unit
    ref_date,      \* --ref_date, a sequence of characters
    ofile0,        \* the output file before the run
    ofile,         \* the output file on disk
    periodicity, start_date, end_date, prule,
    cdftime,       \* origin of the utime converter
    refdate,
    bnds_datelist,
    bnds_interval_since_refdate,   \* offsets, in seconds
    time_interval_since_refdate,   \* midpoints, in half seconds
    nc_dims,       \* dimensions of the dataset being written
    time_var, time_bnds_var        \* the two float32 variables

ovars == <<pc, optsOk, opts, thkfile, args, readable, hasvar, dovars,
           open, pism_var, ref_var, thk_var, Mx, My, i, j,
           sumdiff, sumL2, sum2kL2, countvalid, count2k,
           avdiff, avL2, av2kL2, stdout, diffs, status, error>>

tvars == <<p_opt, start_opt, end_opt, ref_unit, ref_date, ofile0, ofile,
           periodicity, start_date, end_date, prule, cdftime, refdate,
           bnds_datelist,
           bnds_interval_since_refdate, time_interval_since_refdate,
           nc_dims, time_var, time_bnds_var>>

vars == <<ovars, tvars>>

---------------------------------------------------------------------------
(* Bounds of the model *)

\* comparison fields take the values 0..MaxVal
MaxVal == 1

\* the end date lies at most MaxIntervals periods after the start date
MaxIntervals == 3

---------------------------------------------------------------------------
(* objective.py *)

\* thresholds of the accumulation loop
ThkMin == 1
ThkSub == 2000

Unbound == "<unbound>"
Running == -1
NoGrid == [shape |-> <<>>, data |-> <<>>]

\* str.split(","): the pieces between the separators; "" gives [""]
RECURSIVE split(_, _)
split(s, sep) ==
    IF \A n \in 1..Len(s) : s[n] # sep
    THEN <<s>>
    ELSE LET n == CHOOSE n \in 1..Len(s) :
                      s[n] = sep /\ \A m \in 1..(n - 1) : s[m] # sep
         IN  <<SubSeq(s, 1, n - 1)>> \o split(SubSeq(s, n + 1, Len(s)), sep)

\* numpy.squeeze on a shape: size-1 dimensions are dropped
squeeze(shape) == SelectSeq(shape, LAMBDA d : d # 1)

\* index set of a squeezed 2-D shape (0-based, as in the loop)
Cells(shape) ==
    IF Len(shape) = 2
    THEN (0..(shape[1] - 1)) \X (0..(shape[2] - 1))
    ELSE {}

InGrid(g, c) == c \in DOMAIN g.data

\* thk_var[i,j] > 1.0
IsValid(t) == t > ThkMin

\* the sub-region test with the bound let in
IsBelow2k_inclusive(t) == t <= ThkSub

\* thk_var[i,j] < 2000.0
IsBelow2k(t) == t < ThkSub

\* the difference with the sign of the second field lost
diff_vars_added(a, b) == a + b

\* diff_vars = pism_var[i,j] - ref_var[i,j]
diff_vars(a, b) == a - b

\* x / double(n) with numpy semantics: a zero divisor gives nan or +-inf
\* (with a warning), never an exception.  A finite quotient is kept as the
\* exact fraction <<numerator, denominator>>.
Quot(x, n) ==
    IF n = 0
    THEN IF x = 0 THEN <<"nan">> ELSE IF x > 0 THEN <<"inf">> ELSE <<"-inf">>
    ELSE <<x, n>>

IsZero(q) == Len(q) = 2 /\ q[1] = 0


---------------------------------------------------------------------------
(* Inputs of objective.py *)

FieldValues == 0..MaxVal
\* the reference field takes the two extreme values
RefValues == {0, MaxVal}
ThkValues == {ThkMin, ThkMin + 1, ThkSub}

\* a variable of a dataset: its shape as stored and its values, indexed as
\* after squeeze
Full(raw, vals) ==
    {[shape |-> raw, data |-> d] : d \in [Cells(squeeze(raw)) -> vals]}
Uniform(raw, vals) ==
    {[shape |-> raw, data |-> [c \in Cells(squeeze(raw)) |-> v]] : v \in vals}

PismInputs ==
    Full(<<2, 2>>, FieldValues) \cup Uniform(<<1, 2, 2>>, FieldValues)
    \cup Uniform(<<2, 3>>, FieldValues) \cup Uniform(<<1, 2>>, FieldValues)
RefInputs ==
    Full(<<2, 2>>, RefValues) \cup Uniform(<<2, 3>>, RefValues)
    \cup Uniform(<<3, 2>>, RefValues)
ThkInputs ==
    Full(<<2, 2>>, ThkValues) \cup Uniform(<<2, 3>>, ThkValues)
    \cup Uniform(<<3, 3>>, ThkValues)

\* optargs of -v, as sequences of characters
VOptArgs ==
    { <<>>, <<"a">>, <<"a", ",", "b">>, <<"a", ",", "b", ",", "c">> }
v_opt(s) == <<"-v", s>>
H_opt == <<"-H", "start.nc">>
help_opt == <<"--help", "">>
usage_opt == <<"--usage", "">>
\* option lists: none, one option, -v and -H in both orders, a repeated -v,
\* and --help or --usage before, between and after the other options
OptLists ==
    { <<>>, <<H_opt>>, <<help_opt>>, <<usage_opt>> }
    \cup { <<v_opt(s)>> : s \in VOptArgs }
    \cup { <<v_opt(s), H_opt>> : s \in VOptArgs }
    \cup { <<H_opt, v_opt(s)>> : s \in VOptArgs }
    \cup { <<v_opt(<<"a", ",", "b">>), v_opt(<<"a">>), H_opt>>,
           <<help_opt, v_opt(<<"a", ",", "b">>), H_opt>>,
           <<v_opt(<<"a", ",", "b">>), usage_opt, H_opt>>,
           <<H_opt, v_opt(<<"a", ",", "b">>), help_opt>> }
AllArgs == <<"foo.nc", "bar.nc", "diffs.txt", "extra">>
InputFiles == {"start.nc", "foo.nc", "bar.nc"}
OldLines == <<"old">>

\* create_timeline.py is not run
TimelineIdle ==
    /\ p_opt = <<>> /\ start_opt = <<>> /\ end_opt = <<>>
    /\ ref_unit = "" /\ ref_date = <<>>
    /\ ofile0 = [state |-> "absent", time |-> <<>>, time_bounds |-> <<>>]
    /\ ofile = ofile0
    /\ periodicity = <<>> /\ start_date = <<>> /\ end_date = <<>>
    /\ prule = "" /\ cdftime = <<>> /\ refdate = <<>>
    /\ bnds_datelist = <<>>
    /\ bnds_interval_since_refdate = <<>>
    /\ time_interval_since_refdate = <<>>
    /\ nc_dims = {} /\ time_var = <<>> /\ time_bnds_var = <<>>

\* state of objective.py before its first statement
ObjectiveStart ==
    /\ dovars = <<>>
    /\ thkfile = Unbound
    /\ open = {}
    /\ pism_var = NoGrid /\ ref_var = NoGrid /\ thk_var = NoGrid
    /\ Mx = 0 /\ My = 0 /\ i = 0 /\ j = 0
    /\ sumdiff = 0 /\ sumL2 = 0 /\ sum2kL2 = 0
    /\ countvalid = 0 /\ count2k = 0
    /\ avdiff = <<>> /\ avL2 = <<>> /\ av2kL2 = <<>>
    /\ stdout = {}
    /\ diffs = OldLines
    /\ status = Running
    /\ error = "none"

InitObjective ==
    /\ TimelineIdle
    /\ ObjectiveStart
    /\ pc = "getopt"
    /\ optsOk \in BOOLEAN
    /\ opts \in OptLists
    /\ args \in {SubSeq(AllArgs, 1, n) : n \in 0..Len(AllArgs)}
    /\ readable \in SUBSET InputFiles
    /\ hasvar \in {InputFiles} \cup {InputFiles \ {f} : f \in InputFiles}

\* what no statement of objective.py changes: its inputs, and the state of
\* the other tool
inputs == <<optsOk, opts, args, readable, hasvar, tvars>>
\* the names the option loop binds
bound == <<dovars, thkfile>>
grids == <<pism_var, ref_var, thk_var>>
loop == <<Mx, My, i, j>>
sums == <<sumdiff, sumL2, sum2kL2, countvalid, count2k>>
avgs == <<avdiff, avL2, av2kL2>>

\* usagefailure(message): message and usage on stdout, exit(2)
usagefailure ==
    /\ stdout' = stdout \cup {"error", "usage"}
    /\ status' = 2
    /\ error' = "SystemExit"
    /\ pc' = "exited"

\* an exception nobody catches: traceback, exit status 1
Uncaught(e) ==
    /\ status' = 1
    /\ error' = e
    /\ pc' = "exited"
    /\ stdout' = stdout

\* lines 35-42: the option loop over the pairs os, from the bindings st.
\* Each pair is handled in turn; --help or --usage ends the loop (and the
\* run) at once, so the pairs after it are never looked at.
RECURSIVE optloop(_, _)
optloop(os, st) ==
    IF os = <<>>
    THEN st
    ELSE LET opt == Head(os)[1]
             optarg == Head(os)[2]
             st1 == [dovars |-> IF opt = "-v"
                                THEN split(optarg, ",") ELSE st.dovars,
                     thkfile |-> IF opt = "-H" THEN optarg ELSE st.thkfile,
                     exit |-> opt \in {"--help", "--usage"}]
         IN  IF st1.exit THEN st1 ELSE optloop(Tail(os), st1)

\* lines 30-42: getopt, dovars = [], and the option loop
GetOpt ==
    /\ pc = "getopt"
    /\ IF ~optsOk
       THEN usagefailure /\ UNCHANGED <<dovars, thkfile>>
       ELSE LET st == optloop(opts, [dovars |-> <<>>, thkfile |-> thkfile,
                                     exit |-> FALSE])
            IN  /\ dovars' = st.dovars
                /\ thkfile' = st.thkfile
                /\ IF st.exit
                   THEN /\ stdout' = stdout \cup {"usage"}
                        /\ status' = 0
                        /\ error' = "SystemExit"
                        /\ pc' = "exited"
                   ELSE /\ pc' = "checkargs"
                        /\ UNCHANGED <<stdout, status, error>>
    /\ UNCHANGED <<inputs, open, grids, loop, sums, avgs, diffs>>

\* lines 44-48: the two count checks
CheckArgs ==
    /\ pc = "checkargs"
    /\ IF (Len(args) < 2) \/ (Len(args) > 3)
       THEN usagefailure
       ELSE IF Len(dovars) # 2
       THEN usagefailure
       ELSE /\ pc' = "open_thk"
            /\ UNCHANGED <<stdout, status, error>>
    /\ UNCHANGED <<inputs, bound, open, grids, loop, sums, avgs, diffs>>

\* lines 55-58.  With -H absent the name thkfile is unbound: NC(thkfile) raises
\* NameError inside the try, the bare except catches it, and formatting the
\* message reads thkfile again, so NameError leaves the handler uncaught.
OpenThk ==
    /\ pc = "open_thk"
    /\ IF thkfile = Unbound
       THEN Uncaught("NameError") /\ open' = open
       ELSE IF thkfile \in readable
       THEN /\ open' = open \cup {"thk"}
            /\ pc' = "open_pism"
            /\ UNCHANGED <<stdout, status, error>>
       ELSE usagefailure /\ open' = open
    /\ UNCHANGED <<inputs, bound, grids, loop, sums, avgs, diffs>>

\* lines 60-63
OpenPism ==
    /\ pc = "open_pism"
    /\ IF args[1] \in readable
       THEN /\ open' = open \cup {"pism"}
            /\ pc' = "open_ref"
            /\ UNCHANGED <<stdout, status, error>>
       ELSE usagefailure /\ open' = open
    /\ UNCHANGED <<inputs, bound, grids, loop, sums, avgs, diffs>>

\* lines 65-73
OpenRef ==
    /\ pc = "open_ref"
    /\ IF args[2] \in readable
       THEN /\ open' = open \cup {"ref"}
            /\ pc' = "load_pism"
            /\ stdout' = stdout \cup {"comparing"}
            /\ UNCHANGED <<status, error>>
       ELSE usagefailure /\ open' = open
    /\ UNCHANGED <<inputs, bound, grids, loop, sums, avgs, diffs>>


\* line 75: KeyError when the dataset lacks the variable
LoadPism ==
    /\ pc = "load_pism"
    /\ IF args[1] \in hasvar
       THEN /\ \E f \in PismInputs :
                 pism_var' = [shape |-> squeeze(f.shape), data |-> f.data]
            /\ pc' = "load_ref"
            /\ UNCHANGED <<stdout, status, error>>
       ELSE Uncaught("KeyError") /\ pism_var' = pism_var
    /\ UNCHANGED <<inputs, bound, open, ref_var, thk_var, loop, sums, avgs,
                   diffs>>

\* line 76
LoadRef ==
    /\ pc = "load_ref"
    /\ IF args[2] \in hasvar
       THEN /\ \E f \in RefInputs :
                 ref_var' = [shape |-> squeeze(f.shape), data |-> f.data]
            /\ pc' = "shape"
            /\ UNCHANGED <<stdout, status, error>>
       ELSE Uncaught("KeyError") /\ ref_var' = ref_var
    /\ UNCHANGED <<inputs, bound, open, pism_var, thk_var, loop, sums, avgs,
                   diffs>>

\* line 77: Mx, My = shape(pism_var) unpacks exactly two dimensions
GetShape ==
    /\ pc = "shape"
    /\ IF Len(pism_var.shape) = 2
       THEN /\ Mx' = pism_var.shape[1]
            /\ My' = pism_var.shape[2]
            /\ pc' = "load_thk"
            /\ UNCHANGED <<stdout, status, error>>
       ELSE Uncaught("ValueError") /\ UNCHANGED <<Mx, My>>
    /\ UNCHANGED <<inputs, bound, open, grids, i, j, sums, avgs, diffs>>

\* lines 79-85: the thickness grid, then the accumulators start at zero
LoadThk ==
    /\ pc = "load_thk"
    /\ IF thkfile \in hasvar
       THEN /\ \E f \in ThkInputs :
                 thk_var' = [shape |-> squeeze(f.shape), data |-> f.data]
            /\ pc' = "scan"
            /\ UNCHANGED <<stdout, status, error>>
       ELSE Uncaught("KeyError") /\ thk_var' = thk_var
    /\ sumdiff' = 0 /\ sumL2' = 0 /\ sum2kL2' = 0
    /\ countvalid' = 0 /\ count2k' = 0
    /\ i' = 0 /\ j' = 0
    /\ UNCHANGED <<inputs, bound, open, pism_var, ref_var, Mx, My, avgs,
                   diffs>>

\* one pass of the body of the double loop, lines 86-95, at cell (i, j);
\* an index outside a grid raises IndexError where the grid is read
ScanCell ==
    /\ pc = "scan"
    /\ i < Mx
    /\ LET c == <<i, j>> IN
       IF ~InGrid(thk_var, c)
       THEN Uncaught("IndexError") /\ UNCHANGED <<sums, i, j>>
       ELSE IF ~IsValid(thk_var.data[c])
       THEN /\ UNCHANGED <<sums, stdout, status, error>>
            /\ j' = IF j + 1 < My THEN j + 1 ELSE 0
            /\ i' = IF j + 1 < My THEN i ELSE i + 1
            /\ pc' = IF j + 1 < My \/ i + 1 < Mx THEN "scan" ELSE "averages"
       ELSE IF ~InGrid(ref_var, c)
       THEN /\ Uncaught("IndexError")
            /\ countvalid' = countvalid + 1
            /\ UNCHANGED <<sumdiff, sumL2, sum2kL2, count2k, i, j>>
       ELSE LET d == diff_vars(pism_var.data[c], ref_var.data[c])
                below == IsBelow2k(thk_var.data[c])
            IN  /\ countvalid' = countvalid + 1
                /\ sumdiff' = sumdiff + d
                /\ sumL2' = sumL2 + d * d
                /\ count2k' = IF below THEN count2k + 1 ELSE count2k
                /\ sum2kL2' = IF below THEN sum2kL2 + d * d ELSE sum2kL2
                /\ j' = IF j + 1 < My THEN j + 1 ELSE 0
                /\ i' = IF j + 1 < My THEN i ELSE i + 1
                /\ pc' = IF j + 1 < My \/ i + 1 < Mx
                         THEN "scan" ELSE "averages"
                /\ UNCHANGED <<stdout, status, error>>
    /\ UNCHANGED <<inputs, bound, open, grids, Mx, My, avgs, diffs>>

\* lines 97-99
Averages ==
    /\ pc = "averages"
    /\ avdiff' = Quot(sumdiff, countvalid)
    /\ avL2' = Quot(sumL2, countvalid)
    /\ av2kL2' = Quot(sum2kL2, count2k)
    /\ pc' = "close"
    /\ UNCHANGED <<inputs, bound, open, grids, loop, sums, stdout, diffs,
                   status, error>>

\* lines 101-103
CloseAll ==
    /\ pc = "close"
    /\ open' = open \ {"thk", "pism", "ref"}
    /\ pc' = "print"
    /\ UNCHANGED <<inputs, bound, grids, loop, sums, avgs, stdout, diffs,
                   status, error>>

\* "%12.7f" % q: the value in units of 1e-7, rounded to nearest; nan and inf
\* are printed as such
Fmt(q) ==
    IF Len(q) = 1
    THEN q
    ELSE LET n == IF q[1] < 0 THEN -q[1] ELSE q[1]
             r == (2 * n * 10000000 + q[2]) \div (2 * q[2])
         IN  <<IF q[1] < 0 THEN -r ELSE r>>

\* lines 105-115: the report on stdout, then the line appended to args[2]
Report ==
    /\ pc = "print"
    /\ stdout' = stdout \cup {"result"}
    /\ diffs' = IF Len(args) >= 3
                THEN Append(diffs, <<args[1], Fmt(avdiff), Fmt(avL2),
                                     Fmt(av2kL2)>>)
                ELSE diffs
    /\ status' = 0
    /\ pc' = "exited"
    /\ UNCHANGED <<inputs, bound, open, grids, loop, sums, avgs, error>>

NextObjective ==
    \/ GetOpt \/ CheckArgs \/ OpenThk \/ OpenPism \/ OpenRef
    \/ LoadPism \/ LoadRef \/ GetShape \/ LoadThk
    \/ ScanCell \/ Averages \/ CloseAll \/ Report

SpecObjective == InitObjective /\ [][NextObjective]_vars


---------------------------------------------------------------------------
(* Properties of objective.py *)

\* the three grids have the same squeezed 2-D shape
SameShape ==
    /\ Len(pism_var.shape) = 2
    /\ ref_var.shape = pism_var.shape
    /\ thk_var.shape = pism_var.shape

\* the loop ran over every cell and the averages were taken
Scanned == Len(avdiff) > 0
ScanDone == pc \in {"averages", "close", "print"} \/ Scanned
Finished == pc = "exited" /\ status = 0 /\ "result" \in stdout

RECURSIVE SumOver(_, _)
SumOver(S, f) ==
    IF S = {}
    THEN 0
    ELSE LET c == CHOOSE c \in S : TRUE
         IN  f[c] + SumOver(S \ {c}, f)

GridCells == Cells(pism_var.shape)
ThickCells == {c \in GridCells : thk_var.data[c] > 1}
Thick2kCells == {c \in ThickCells : thk_var.data[c] < 2000}
DiffAt == [c \in GridCells |-> pism_var.data[c] - ref_var.data[c]]
SqDiffAt == [c \in GridCells |-> DiffAt[c] * DiffAt[c]]

\* C1: once the scan has visited all cells of three grids of one shape,
\* countvalid counts the cells with thk > 1.0, sumdiff and sumL2 are the sums
\* of (a - b) and (a - b)^2 over exactly those cells, count2k counts the
\* cells with 1.0 < thk < 2000.0 and sum2kL2 sums (a - b)^2 over those; cells
\* with thk <= 1.0 contribute nothing.
C1_Accumulators ==
    (ScanDone /\ SameShape) =>
        /\ countvalid = Cardinality(ThickCells)
        /\ sumdiff = SumOver(ThickCells, DiffAt)
        /\ sumL2 = SumOver(ThickCells, SqDiffAt)
        /\ count2k = Cardinality(Thick2kCells)
        /\ sum2kL2 = SumOver(Thick2kCells, SqDiffAt)

C1_Witness ==
    /\ ScanDone /\ SameShape
    /\ 0 < count2k /\ count2k < countvalid
    /\ countvalid < Cardinality(GridCells)
    /\ sumdiff # 0 /\ sum2kL2 # 0 /\ sum2kL2 < sumL2

\* C2: a scan that ends with countvalid = 0 or count2k = 0 ends in an
\* explicit insufficient-data error with no result line printed or appended;
\* a result line appears only when both counts are at least 1.
C2_ZeroCountRejected ==
    /\ (pc = "exited" /\ ScanDone /\ (countvalid = 0 \/ count2k = 0)) =>
           /\ error = "InsufficientDataError"
           /\ "result" \notin stdout
           /\ diffs = OldLines
    /\ ("result" \in stdout \/ diffs # OldLines) =>
           (countvalid >= 1 /\ count2k >= 1)

\* the command line holds the option, and the optarg of its last occurrence
Given(opt) == \E n \in 1..Len(opts) : opts[n][1] = opt
LastArg(opt) ==
    opts[CHOOSE n \in 1..Len(opts) :
             /\ opts[n][1] = opt
             /\ \A m \in (n + 1)..Len(opts) : opts[m][1] # opt][2]
HelpAsked == Given("--help") \/ Given("--usage")

\* some dataset the run needs cannot be opened for reading
OpenFails ==
    \/ Given("-H") /\ LastArg("-H") \notin readable
    \/ \E n \in {1, 2} : n <= Len(args) /\ args[n] \notin readable

UsageError ==
    \/ ~optsOk
    \/ ~Given("-v")
    \/ ~Given("-H")
    \/ Len(args) \notin {2, 3}
    \/ (Given("-v") /\ Len(split(LastArg("-v"), ",")) # 2)
    \/ OpenFails

\* C3: every usage error (malformed options, -v or -H missing, a
\* positional-argument count other than 2 or 3, a -v list without exactly two
\* names, a dataset that cannot be opened) prints the usage message, ends with
\* exit status 2 and appends nothing; the scan is never reached.  Runs that
\* ask for --help are left aside.
C3_UsageErrorExit2 ==
    (pc = "exited" /\ UsageError /\ ~(optsOk /\ HelpAsked)) =>
        /\ status = 2
        /\ "usage" \in stdout
        /\ diffs = OldLines
        /\ thk_var = NoGrid /\ countvalid = 0 /\ ~ScanDone

AllLoaded == thk_var # NoGrid

\* C4: three grids that do not share one squeezed 2-D shape are rejected with
\* an explicit shape-mismatch error before any cell is accumulated, and no
\* result line is produced.
C4_ShapeMismatchRejected ==
    (AllLoaded /\ ~SameShape) =>
        /\ countvalid = 0 /\ count2k = 0
        /\ pc = "exited" => error = "ShapeMismatchError"
        /\ "result" \notin stdout
        /\ diffs = OldLines

Identical == pism_var # NoGrid /\ pism_var = ref_var

AllZero ==
    /\ IsZero(avdiff) /\ IsZero(avL2) /\ IsZero(av2kL2)
    /\ Len(diffs) > Len(OldLines) =>
           diffs[Len(diffs)] = <<args[1], <<0>>, <<0>>, <<0>>>>

\* C8 as claimed: identical fields and at least one cell with thk > 1.0 give
\* three statistics that are exactly 0, whatever the thickness grid.
C8_Original_ZeroDifference ==
    (Finished /\ Identical /\ countvalid >= 1) => AllZero

\* C8 as amended: identical fields and at least one cell with
\* 1.0 < thk < 2000.0 give three statistics that are exactly 0.
C8_ZeroDifference ==
    (Finished /\ Identical /\ count2k >= 1) => AllZero

C8_Witness ==
    /\ Finished /\ Identical /\ SameShape
    /\ count2k >= 1 /\ countvalid > count2k
    /\ \E c \in GridCells : pism_var.data[c] # 0
    /\ Len(diffs) > Len(OldLines)
    /\ AllZero

\* C9: whatever way the run ends, no dataset that was opened is still open.
C9_AllClosedAtExit ==
    pc = "exited" => open = {}


---------------------------------------------------------------------------
(* create_timeline.py: strings, calendar, date rule, float32 *)

Lowers == <<"a", "b", "c", "d", "e", "f", "g", "h", "i", "j", "k", "l", "m",
            "n", "o", "p", "q", "r", "s", "t", "u", "v", "w", "x", "y", "z">>
Uppers == <<"A", "B", "C", "D", "E", "F", "G", "H", "I", "J", "K", "L", "M",
            "N", "O", "P", "Q", "R", "S", "T", "U", "V", "W", "X", "Y", "Z">>

\* str.upper(): lower-case letters are replaced, the rest is kept
upper(str) ==
    [n \in 1..Len(str) |->
        IF \E l \in 1..Len(Lowers) : Lowers[l] = str[n]
        THEN Uppers[CHOOSE l \in 1..Len(Lowers) : Lowers[l] = str[n]]
        ELSE str[n]]

\* pdict: keyword -> rrule frequency
pdict ==
    (<<"S", "E", "C", "O", "N", "D", "L", "Y">> :> "SECONDLY") @@
    (<<"H", "O", "U", "R", "L", "Y">> :> "HOURLY") @@
    (<<"D", "A", "I", "L", "Y">> :> "DAILY") @@
    (<<"W", "E", "E", "K", "L", "Y">> :> "WEEKLY") @@
    (<<"M", "O", "N", "T", "H", "L", "Y">> :> "MONTHLY") @@
    (<<"Y", "E", "A", "R", "L", "Y">> :> "YEARLY")

Digits == <<"0", "1", "2", "3", "4", "5", "6", "7", "8", "9">>
IsDigit(c) == \E n \in 1..Len(Digits) : Digits[n] = c
DigitVal(c) == (CHOOSE n \in 1..Len(Digits) : Digits[n] = c) - 1

\* int(tok) accepts a non-empty run of digits
IsInt(tok) == Len(tok) > 0 /\ \A n \in 1..Len(tok) : IsDigit(tok[n])
RECURSIVE int(_)
int(tok) ==
    IF Len(tok) = 0
    THEN 0
    ELSE 10 * int(SubSeq(tok, 1, Len(tok) - 1)) + DigitVal(tok[Len(tok)])

\* A date and time of day is <<year, month, day, second of the day>>.
IsLeap(y) == (y % 4 = 0 /\ y % 100 # 0) \/ y % 400 = 0

DaysInMonth(y, m) ==
    IF m = 2 THEN (IF IsLeap(y) THEN 29 ELSE 28)
    ELSE IF m \in {4, 6, 9, 11} THEN 30 ELSE 31

RECURSIVE DaysBeforeMonth(_, _)
DaysBeforeMonth(y, m) ==
    IF m = 1 THEN 0 ELSE DaysBeforeMonth(y, m - 1) + DaysInMonth(y, m - 1)

\* proleptic Gregorian day number, 0001-01-01 is day 1
Ordinal(dt) ==
    LET y == dt[1] - 1
    IN  365 * y + (y \div 4) - (y \div 100) + (y \div 400)
        + DaysBeforeMonth(dt[1], dt[2]) + dt[3]

ValidDate(y, m, d) ==
    y \in 1..9999 /\ m \in 1..12 /\ d >= 1 /\ d <= DaysInMonth(y, m)

Before(a, b) ==
    \E n \in 1..4 : a[n] < b[n] /\ \A m \in 1..(n - 1) : a[m] = b[m]

NextDay(dt) ==
    IF dt[3] < DaysInMonth(dt[1], dt[2]) THEN <<dt[1], dt[2], dt[3] + 1, dt[4]>>
    ELSE IF dt[2] < 12 THEN <<dt[1], dt[2] + 1, 1, dt[4]>>
    ELSE <<dt[1] + 1, 1, 1, dt[4]>>

RECURSIVE AddDays(_, _)
AddDays(dt, n) == IF n = 0 THEN dt ELSE AddDays(NextDay(dt), n - 1)

AddSeconds(dt, n) ==
    IF dt[4] + n < 86400
    THEN <<dt[1], dt[2], dt[3], dt[4] + n>>
    ELSE LET nd == NextDay(dt) IN <<nd[1], nd[2], nd[3], dt[4] + n - 86400>>

\* the next month that has day dt[3]
RECURSIVE NextMonthly(_)
NextMonthly(dt) ==
    LET y == IF dt[2] = 12 THEN dt[1] + 1 ELSE dt[1]
        m == IF dt[2] = 12 THEN 1 ELSE dt[2] + 1
    IN  IF dt[3] <= DaysInMonth(y, m)
        THEN <<y, m, dt[3], dt[4]>>
        ELSE NextMonthly(<<y, m, dt[3], dt[4]>>)

\* the next year that has month dt[2], day dt[3]
RECURSIVE NextYearly(_)
NextYearly(dt) ==
    IF dt[3] <= DaysInMonth(dt[1] + 1, dt[2])
    THEN <<dt[1] + 1, dt[2], dt[3], dt[4]>>
    ELSE NextYearly(<<dt[1] + 1, dt[2], dt[3], dt[4]>>)

\* the occurrence of the rule that follows dt
Following(freq, dt) ==
    CASE freq = "SECONDLY" -> AddSeconds(dt, 1)
      [] freq = "HOURLY"   -> AddSeconds(dt, 3600)
      [] freq = "DAILY"    -> NextDay(dt)
      [] freq = "WEEKLY"   -> AddDays(dt, 7)
      [] freq = "MONTHLY"  -> NextMonthly(dt)
      [] freq = "YEARLY"   -> NextYearly(dt)

\* list(rrule.rrule(freq, dtstart=dtstart, until=until)): dtstart and the
\* occurrences after it, up to and including until
RECURSIVE rrule(_, _, _)
rrule(freq, dtstart, until) ==
    IF Before(until, dtstart)
    THEN <<>>
    ELSE <<dtstart>> \o rrule(freq, Following(freq, dtstart), until)

\* seconds from the reference date to dt
SecondsSince(ref, dt) == (Ordinal(dt) - Ordinal(ref)) * 86400 + dt[4]

\* One unit of time is 2^a * b seconds: <<a, b>>.
UnitScale ==
    [days |-> <<7, 675>>, hours |-> <<4, 225>>, minutes |-> <<2, 15>>,
     seconds |-> <<0, 1>>]

RECURSIVE Log2Floor(_)
Log2Floor(n) == IF n < 2 THEN 0 ELSE 1 + Log2Floor(n \div 2)

\* n / d rounded to the nearest integer, ties to even
RoundHalfEven(n, d) ==
    LET q == n \div d
        r == n % d
    IN  IF r > d - r THEN q + 1
        ELSE IF r < d - r THEN q
        ELSE IF q % 2 = 0 THEN q ELSE q + 1

\* The float32 nearest to n / (2^a * b), for a value that is 0 or at least 1:
\* [e, k] stands for k * 2^(e - 23) with 2^23 <= k < 2^24.
Float32(n, a, b) ==
    IF n = 0
    THEN [e |-> 0, k |-> 0]
    ELSE LET e == Log2Floor(n \div (2 ^ a * b))
             m == 23 - e - a
             k == IF m >= 0
                  THEN 2 ^ m * (n \div b) + RoundHalfEven(2 ^ m * (n % b), b)
                  ELSE RoundHalfEven(n, b * 2 ^ (-m))
         IN  IF k = 2 ^ 24
             THEN [e |-> e + 1, k |-> 2 ^ 23]
             ELSE [e |-> e, k |-> k]

Less32(x, y) == x.e < y.e \/ (x.e = y.e /\ x.k < y.k)

\* s[0:-1]
ButLast(s) == SubSeq(s, 1, Len(s) - 1)
\* s[1::]
ButFirst(s) == SubSeq(s, 2, Len(s))
\* numpy.diff(s)
diff(s) == [n \in 1..(Len(s) - 1) |-> s[n + 1] - s[n]]

---------------------------------------------------------------------------
(* create_timeline.py: the script *)

Keywords ==
    { <<"m", "o", "n", "t", "h", "l", "y">>,
      <<"M", "O", "N", "T", "H", "L", "Y">>,
      <<"D", "a", "i", "l", "y">>,
      <<"w", "e", "e", "k", "l", "y">>,
      <<"y", "e", "a", "r", "l", "y">>,
      <<"h", "o", "u", "r", "l", "y">>,
      <<"s", "e", "c", "o", "n", "d", "l", "y">>,
      <<"m", "i", "n", "u", "t", "e", "l", "y">>,
      <<"F", "O", "R", "T", "N", "I", "G", "H", "T", "L", "Y">> }

Unparseable == <<>>
StartDates == { <<1980, 1, 1, 0>>, <<1980, 1, 31, 0>>, <<1979, 12, 31, 86399>> }
RefDates ==
    { <<"1", "9", "6", "0", "-", "1", "-", "1">>,
      <<"1", "9", "7", "9", "-", "1", "-", "1">>,
      <<"1", "9", "6", "0", "-", "1">>,
      <<"1", "9", "6", "0", "-", "x", "-", "1">> }
RefUnits == {"days", "hours", "seconds", "fortnights"}

\* the n-th occurrence after dt
RECURSIVE Occurrence(_, _, _)
Occurrence(freq, dt, n) ==
    IF n = 0 THEN dt ELSE Occurrence(freq, Following(freq, dt), n - 1)

\* end dates tried with a start date: on an occurrence of the rule, one
\* second past one, a year before the start, and a string parse rejects
EndDates(kw, start) ==
    LET key == upper(kw)
        freq == IF key \in DOMAIN pdict THEN pdict[key] ELSE "DAILY"
    IN  {Occurrence(freq, start, n) : n \in 0..MaxIntervals}
        \cup {AddSeconds(Occurrence(freq, start, 1), 1)}
        \cup {<<start[1] - 1, start[2], start[3], start[4]>>}
        \cup {Unparseable}

NoFile == [state |-> "absent", time |-> <<>>, time_bounds |-> <<>>]
OldFile == [state |-> "old", time |-> <<>>, time_bounds |-> <<>>]

InitTimeline ==
    /\ ObjectiveStart
    /\ optsOk = TRUE /\ opts = <<>>
    /\ readable = {} /\ hasvar = {}
    /\ pc = "parse_args"
    /\ args \in {<<>>, <<"time.nc">>}
    /\ p_opt \in Keywords
    /\ start_opt \in StartDates \cup {Unparseable}
    /\ end_opt \in IF start_opt = Unparseable
                   THEN {<<1980, 2, 1, 0>>}
                   ELSE EndDates(p_opt, start_opt)
    /\ ref_unit \in RefUnits
    /\ ref_date \in RefDates
    /\ ofile0 \in {NoFile, OldFile}
    /\ ofile = ofile0
    /\ periodicity = <<>> /\ start_date = <<>> /\ end_date = <<>>
    /\ prule = "" /\ cdftime = <<>> /\ refdate = <<>>
    /\ bnds_datelist = <<>>
    /\ bnds_interval_since_refdate = <<>>
    /\ time_interval_since_refdate = <<>>
    /\ nc_dims = {} /\ time_var = <<>> /\ time_bnds_var = <<>>

oidle == <<optsOk, opts, thkfile, readable, hasvar, dovars, open,
           grids, loop, sums, avgs, stdout, diffs>>
\* what no statement of create_timeline.py changes
tinputs == <<args, p_opt, start_opt, end_opt, ref_unit, ref_date, ofile0,
             oidle>>
tparsed == <<periodicity, start_date, end_date>>
tarrays == <<bnds_datelist, bnds_interval_since_refdate,
             time_interval_since_refdate>>
tnc == <<nc_dims, time_var, time_bnds_var>>

\* an exception nobody catches: traceback, exit status 1
Raise(e) ==
    /\ status' = 1
    /\ error' = e
    /\ pc' = "exited"

Continue(next) ==
    /\ pc' = next
    /\ UNCHANGED <<status, error>>

\* lines 55-62: upper-case the keyword, parse the two dates, take args[0]
ParseArgs ==
    /\ pc = "parse_args"
    /\ periodicity' = upper(p_opt)
    /\ IF start_opt = Unparseable
       THEN Raise("ValueError") /\ UNCHANGED <<start_date, end_date>>
       ELSE /\ start_date' = start_opt
            /\ IF end_opt = Unparseable
               THEN Raise("ValueError") /\ end_date' = end_date
               ELSE /\ end_date' = end_opt
                    /\ IF Len(args) = 0
                       THEN Raise("IndexError")
                       ELSE Continue("open")
    /\ UNCHANGED <<tinputs, ofile, prule, cdftime, refdate, tarrays, tnc>>

\* line 63: mode 'w' creates the file, or empties the one that is there
OpenNc ==
    /\ pc = "open"
    /\ ofile' = [state |-> "truncated", time |-> <<>>, time_bounds |-> <<>>]
    /\ Continue("utime")
    /\ UNCHANGED <<tinputs, tparsed, prule, cdftime, refdate, tarrays, tnc>>

\* lines 65-70: utime("<unit> since <date>") wants a unit it knows and a
\* date of one to three numeric fields; missing fields default to 1
UtimeFields == split(ref_date, "-")
UtimeAccepts ==
    /\ ref_unit \in DOMAIN UnitScale
    /\ Len(UtimeFields) \in 1..3
    /\ \A n \in 1..Len(UtimeFields) : IsInt(UtimeFields[n])
    /\ LET f == [n \in 1..3 |->
                   IF n <= Len(UtimeFields) THEN int(UtimeFields[n]) ELSE 1]
       IN  ValidDate(f[1], f[2], f[3])

MakeUtime ==
    /\ pc = "utime"
    /\ IF UtimeAccepts
       THEN /\ cdftime' = [n \in 1..4 |->
                             IF n = 4 THEN 0
                             ELSE IF n <= Len(UtimeFields)
                             THEN int(UtimeFields[n]) ELSE 1]
            /\ Continue("pdict")
       ELSE Raise("ValueError") /\ cdftime' = cdftime
    /\ UNCHANGED <<tinputs, ofile, tparsed, prule, refdate, tarrays, tnc>>

\* lines 74-81: prule = pdict[periodicity]
LookupRule ==
    /\ pc = "pdict"
    /\ IF periodicity \in DOMAIN pdict
       THEN prule' = pdict[periodicity] /\ Continue("refdate")
       ELSE Raise("KeyError") /\ prule' = prule
    /\ UNCHANGED <<tinputs, ofile, tparsed, cdftime, refdate, tarrays, tnc>>

\* lines 83-84: refdate = datetime(int(r[0]), int(r[1]), int(r[2]))
RefDate ==
    /\ pc = "refdate"
    /\ LET r == split(ref_date, "-") IN
       IF Len(r) < 3
       THEN Raise("IndexError") /\ refdate' = refdate
       ELSE IF ~(IsInt(r[1]) /\ IsInt(r[2]) /\ IsInt(r[3]))
       THEN Raise("ValueError") /\ refdate' = refdate
       ELSE IF ~ValidDate(int(r[1]), int(r[2]), int(r[3]))
       THEN Raise("ValueError") /\ refdate' = refdate
       ELSE /\ refdate' = <<int(r[1]), int(r[2]), int(r[3]), 0>>
            /\ Continue("rrule")
    /\ UNCHANGED <<tinputs, ofile, tparsed, prule, cdftime, tarrays, tnc>>

\* line 87
RRule ==
    /\ pc = "rrule"
    /\ bnds_datelist' = rrule(prule, start_date, end_date)
    /\ Continue("date2num")
    /\ UNCHANGED <<tinputs, ofile, tparsed, prule, cdftime, refdate,
                   bnds_interval_since_refdate, time_interval_since_refdate,
                   tnc>>

\* line 90: cdftime.date2num(bnds_datelist).  The offsets are kept exactly,
\* as whole seconds; the value in ref_unit is that over the unit's length.
date2num(dates) == [n \in 1..Len(dates) |-> SecondsSince(cdftime, dates[n])]

Date2Num ==
    /\ pc = "date2num"
    /\ bnds_interval_since_refdate' = date2num(bnds_datelist)
    /\ Continue("midpoints")
    /\ UNCHANGED <<tinputs, ofile, tparsed, prule, cdftime, refdate,
                   bnds_datelist, time_interval_since_refdate, tnc>>

\* line 90 on an empty list: releases of netcdftime that probe date[0] take
\* the empty list for a scalar and fail on its missing attributes
Date2NumEmptyFails ==
    /\ pc = "date2num"
    /\ Len(bnds_datelist) = 0
    /\ Raise("AttributeError")
    /\ UNCHANGED <<tinputs, ofile, tparsed, prule, cdftime, refdate, tarrays,
                   tnc>>

\* the midpoints with the differences taken of the sliced array
midpoints_of_slice(b) ==
    [n \in 1..Len(diff(ButLast(b))) |-> 2 * ButLast(b)[n] + diff(b)[n]]

\* lines 91-92: b[0:-1] + diff(b) / 2, kept exactly as a count of half seconds
midpoints(b) ==
    [n \in 1..Len(ButLast(b)) |-> 2 * ButLast(b)[n] + diff(b)[n]]

Midpoints ==
    /\ pc = "midpoints"
    /\ time_interval_since_refdate' = midpoints(bnds_interval_since_refdate)
    /\ Continue("dims")
    /\ UNCHANGED <<tinputs, ofile, tparsed, prule, cdftime, refdate,
                   bnds_datelist, bnds_interval_since_refdate, tnc>>

\* lines 96-104: each dimension is created unless the dataset has it
CreateDims ==
    /\ pc = "dims"
    /\ nc_dims' = nc_dims \cup {"time", "tbnds"}
    /\ Continue("write_time")
    /\ UNCHANGED <<tinputs, ofile, tparsed, prule, cdftime, refdate, tarrays,
                   time_var, time_bnds_var>>

\* storing into a variable created with type 'f' rounds to float32
Scale == UnitScale[ref_unit]
store_time(t) == [n \in 1..Len(t) |-> Float32(t[n], Scale[1] + 1, Scale[2])]
store_bnds(b) ==
    [n \in 1..Len(ButLast(b)) |->
        << Float32(ButLast(b)[n], Scale[1], Scale[2]),
           Float32(ButFirst(b)[n], Scale[1], Scale[2]) >>]

\* lines 109-115
WriteTime ==
    /\ pc = "write_time"
    /\ time_var' = store_time(time_interval_since_refdate)
    /\ Continue("write_bnds")
    /\ UNCHANGED <<tinputs, ofile, tparsed, prule, cdftime, refdate, tarrays,
                   nc_dims, time_bnds_var>>

\* lines 117-119
WriteBnds ==
    /\ pc = "write_bnds"
    /\ time_bnds_var' = store_bnds(bnds_interval_since_refdate)
    /\ Continue("close")
    /\ UNCHANGED <<tinputs, ofile, tparsed, prule, cdftime, refdate, tarrays,
                   nc_dims, time_var>>

\* lines 121-126: attributes, then close() puts the dataset on disk
CloseNc ==
    /\ pc = "close"
    /\ ofile' = [state |-> "complete", time |-> time_var,
                 time_bounds |-> time_bnds_var]
    /\ status' = 0
    /\ pc' = "exited"
    /\ UNCHANGED <<error, tinputs, tparsed, prule, cdftime, refdate, tarrays,
                   tnc>>

NextTimeline ==
    \/ ParseArgs \/ OpenNc \/ MakeUtime \/ LookupRule \/ RefDate
    \/ RRule \/ Date2Num \/ Date2NumEmptyFails \/ Midpoints
    \/ CreateDims \/ WriteTime \/ WriteBnds \/ CloseNc

SpecTimeline == InitTimeline /\ [][NextTimeline]_vars

---------------------------------------------------------------------------
(* Properties of create_timeline.py *)

SixKeywords ==
    { <<"S", "E", "C", "O", "N", "D", "L", "Y">>,
      <<"H", "O", "U", "R", "L", "Y">>,
      <<"D", "A", "I", "L", "Y">>,
      <<"W", "E", "E", "K", "L", "Y">>,
      <<"M", "O", "N", "T", "H", "L", "Y">>,
      <<"Y", "E", "A", "R", "L", "Y">> }

\* the run came to the keyword lookup: utime was built
AtLookup == cdftime # <<>> /\ pc # "pdict"
\* the date rule was evaluated
RuleRun == refdate # <<>> /\ pc # "rrule"
Complete == pc = "exited" /\ status = 0

\* C5: a keyword is accepted exactly when its upper-cased form is one of the
\* six; any other keyword ends the run in an unknown-periodicity error of its
\* own, not in a dictionary-lookup failure, and no boundary dates are made.
C5_UnknownPeriodicityError ==
    /\ prule # "" => upper(p_opt) \in SixKeywords
    /\ (AtLookup /\ upper(p_opt) \in SixKeywords) => prule # ""
    /\ (AtLookup /\ upper(p_opt) \notin SixKeywords) =>
           /\ pc = "exited"
           /\ error = "UnknownPeriodicityError"
           /\ bnds_datelist = <<>>

\* C6 as claimed: for every start and end, end before start included, the
\* number of coordinate values written and the number of bounds rows are both
\* the number of boundary dates minus one.
C6_Original_IntervalCount ==
    (pc = "exited" /\ RuleRun) =>
        /\ Len(ofile.time) = Len(bnds_datelist) - 1
        /\ Len(ofile.time_bounds) = Len(bnds_datelist) - 1

\* C6 as amended: when end is not before start there is at least one boundary
\* date, and the number of coordinate values written and the number of bounds
\* rows are both the number of boundary dates minus one; a range of exactly
\* one period gives 2 boundaries and 1 row.  When end is before start there
\* is no boundary date and no value or row is written.
C6_IntervalCount ==
    (pc = "exited" /\ RuleRun) =>
        IF Before(end_date, start_date)
        THEN /\ Len(bnds_datelist) = 0
             /\ Len(ofile.time) = 0
             /\ Len(ofile.time_bounds) = 0
        ELSE /\ Len(bnds_datelist) >= 1
             /\ Complete
             /\ Len(ofile.time) = Len(bnds_datelist) - 1
             /\ Len(ofile.time_bounds) = Len(bnds_datelist) - 1
             /\ end_date = Following(prule, start_date) =>
                    (Len(bnds_datelist) = 2 /\ Len(ofile.time) = 1)

C6_Witness ==
    /\ Complete
    /\ end_date = Following(prule, start_date)
    /\ prule = "MONTHLY"
    /\ Len(bnds_datelist) = 2
    /\ Len(ofile.time) = 1 /\ Len(ofile.time_bounds) = 1

\* C7: in a run that writes at least one interval from strictly increasing
\* offsets, bounds row i holds (offset_i, offset_{i+1}), consecutive rows are
\* contiguous, and coordinate i holds the midpoint (offset_i + offset_{i+1})
\* / 2 and lies strictly between the two bounds of its row.  "Holds" is read
\* as generously as the file allows: the value as the variable's type
\* stores it.
C7_BoundsAndMidpoints ==
    (Complete /\ Len(bnds_datelist) >= 2) =>
        LET b == bnds_interval_since_refdate
            u == UnitScale[ref_unit]
        IN  /\ Len(ofile.time) = Len(b) - 1
            /\ Len(ofile.time_bounds) = Len(b) - 1
            /\ \A n \in 1..(Len(b) - 1) :
                 /\ b[n] < b[n + 1]
                 /\ ofile.time_bounds[n][1] = Float32(b[n], u[1], u[2])
                 /\ ofile.time_bounds[n][2] = Float32(b[n + 1], u[1], u[2])
                 /\ ofile.time[n] = Float32(b[n] + b[n + 1], u[1] + 1, u[2])
                 /\ Less32(ofile.time_bounds[n][1], ofile.time[n])
                 /\ Less32(ofile.time[n], ofile.time_bounds[n][2])
            /\ \A n \in 1..(Len(b) - 2) :
                 ofile.time_bounds[n][2] = ofile.time_bounds[n + 1][1]

InputsValid ==
    /\ upper(p_opt) \in SixKeywords
    /\ start_opt # Unparseable /\ end_opt # Unparseable
    /\ LET r == split(ref_date, "-")
       IN  Len(r) = 3 /\ \A n \in 1..3 : IsInt(r[n])

\* C10: a run that fails on an unknown keyword, a reference date that does
\* not split into three integers or an unparseable start or end date leaves
\* the output file as it was, neither created nor truncated.
C10_AllOrNothing ==
    (pc = "exited" /\ status # 0 /\ ~InputsValid) => ofile = ofile0

==========================================================================
